---------------------------- MODULE Spec2Model ----------------------------
(***************************************************************************)
(* SavePoint (main.py): one `--run` invocation after another of the        *)
(* database backup tool.  A process is main() inside the __main__ block;   *)
(* it runs DatabaseBackup.run_backup, which dumps (mysql or mongodb, the   *)
(* latter after MongoToolsManager.ensure_tools_available), packages,       *)
(* uploads by FTP and sends the mail report.  The tools cache and the      *)
(* backup directory live on disk and survive from one invocation to the    *)
(* next.                                                                   *)
(*                                                                         *)
(* Control is a program counter `pc`; a raised exception is the variable   *)
(* `exc`, and every try/except/finally of the source is one action that    *)
(* either handles `exc` or passes it to the enclosing handler.             *)
(***************************************************************************)
EXTENDS Integers, Sequences, FiniteSets, TLC

VARIABLES
    pc,            \* position of the process in main.py
    exc,           \* exception in flight ("none" when there is none)
    interrupted,   \* a KeyboardInterrupt was raised in this invocation
    exit_code,     \* exit status the process ends with
    run,           \* number of the current invocation; also its timestamp
    cfg,           \* BackupConfig.config, the part the run reads
    on_path,       \* shutil.which(mongodump) finds the executable
    config_dir,    \* files and directories in config_dir (.config)
    backup_dir,    \* files and directories in backup.local_path
    timestamp,     \* local `timestamp` of the dump operation
    mongodump_path,\* local `mongodump_path`
    downloaded_file,\* local `downloaded_file` of ensure_tools_available
    picked,        \* local `extracted_dir` of extract_tools
    cmd,           \* argument list of the dump command
    returncode,    \* exit status of the dump command
    backup_file,   \* local `backup_file` of run_backup
    notify_args,   \* arguments of the pending send_email_notification call
    notify_site,   \* where send_email_notification was called from
    downloads,     \* requests.get calls made since the model started
    resolved,      \* ensure_tools_available has returned a path before
    resolved_at,   \* value of `downloads` when ensure_tools_available last returned
    log            \* calls and remote operations of the current invocation

vars == << pc, exc, interrupted, exit_code, run, cfg, on_path, config_dir,
           backup_dir, timestamp, returncode, mongodump_path, downloaded_file, picked, cmd,
           backup_file, notify_args, notify_site, downloads, resolved,
           resolved_at, log >>

-----------------------------------------------------------------------------
(* Bounds *)

\* number of `--run` invocations followed
MaxRuns == 2

-----------------------------------------------------------------------------
(* Values *)

None == "None"

\* exceptions: everything but KeyboardInterrupt derives from Exception
KeyboardInterrupt == "KeyboardInterrupt"
CalledProcessError == "CalledProcessError"
ValueError == "ValueError"
Error == "Exception"
\* what rmtree and rename raise when the target is in their way
OSError == "OSError"

IsException(e) == e \notin {"none", KeyboardInterrupt}

\* outcomes of a call to the outside world
Outcomes == {"ok", Error, KeyboardInterrupt}

DbTypes == {"mysql", "mongodb", "postgres", None}
ConnStrings == {"", "mongodb://u:p@host/mydb"}
Systems == {"windows", "linux"}

\* BackupConfig.config: the database block, backup.local_path, ftp.enabled and
\* the platform MongoToolsManager.__init__ reads
Configs ==
    [ db_type : DbTypes, name : {"orders"}, connection_string : ConnStrings,
      host : {"localhost"}, port : {"3306"}, username : {"u"}, password : {"p"},
      local_path : {"/srv/backups"}, ftp_enabled : BOOLEAN, system : Systems ]

Event(op, arg, ok) == [op |-> op, arg |-> arg, ok |-> ok]

-----------------------------------------------------------------------------
(* File names in the backup directory *)

\* backup_dir / name
Join(dir, name) == dir \o "/" \o name

\* datetime.now().strftime('%Y%m%d_%H%M%S'): invocation n runs at second n
Strftime(n) == "20240301_10000" \o ToString(n)

\* f"mysql_{db_config['name']}_{timestamp}.sql"
MysqlBackupFile(dir, name, ts) == Join(dir, "mysql_" \o name \o "_" \o ts \o ".sql")

\* as MysqlArtifact, had .gz replaced the suffix (Path.with_suffix)
MysqlArtifactWithSuffix(file) == SubSeq(file, 1, Len(file) - Len(".sql")) \o ".gz"

\* f"{backup_file}.gz"
MysqlArtifact(file) == file \o ".gz"

\* f"mongodb_{db_config['name']}_{timestamp}"
MongoBackupPath(dir, name, ts) == Join(dir, "mongodb_" \o name \o "_" \o ts)

\* f"{backup_path}.tar.gz"
MongoArchivePath(path) == path \o ".tar.gz"

\* an entry of the backup directory: its path and whether its content is whole
Entry(name, whole) == [name |-> name, whole |-> whole]

Names(dir) == { e.name : e \in dir }

Without(dir, name) == { e \in dir : e.name # name }

\* as Deleted, had the removal been left out
DeletedSkipped(dir, name) == dir

\* backup_file.unlink() / shutil.rmtree(backup_path)
Deleted(dir, name) == Without(dir, name)

With(dir, name, whole) == Without(dir, name) \cup { Entry(name, whole) }


-----------------------------------------------------------------------------
(* The tools cache under config_dir *)

\* what a downloaded file holds: a well-formed archive ("good": one top-level
\* directory with the known prefix holding bin/mongodump), an archive whose
\* directory lacks the executable ("noexe"), an archive with another layout
\* ("nodir"), or no archive at all ("corrupt": truncated or damaged bytes;
\* "error_body": the body of an HTTP error response)
ArchiveKinds == {"good", "noexe", "nodir", "corrupt", "error_body"}

\* contents that ZipFile / tarfile.open refuse
Unreadable == {"corrupt", "error_body"}

\* an entry of config_dir; gen is the download it stems from (0: none)
File(name, content, gen) == [name |-> name, kind |-> "file", content |-> content, gen |-> gen]

\* a directory is "good" (holds bin/mongodump), "noexe" (holds other files) or "empty"
Dir(name, content, gen) == [name |-> name, kind |-> "dir", content |-> content, gen |-> gen]

Exists(dir, name) == \E e \in dir : e.name = name

Lookup(dir, name) == CHOOSE e \in dir : e.name = name

Remove(dir, name) == { e \in dir : e.name # name }

\* startswith
HasPrefix(s, p) == Len(s) >= Len(p) /\ SubSeq(s, 1, Len(p)) = p

\* self.tools_dir = config_dir / 'mongodb-tools'
ToolsDir == "mongodb-tools"

\* config_dir before the first invocation: the saved configuration, and maybe a
\* cached, a stale or an empty installation
InitialConfigDirs ==
    { {File("backup_config.json", "json", 0)} \cup t :
        t \in { {}, {Dir(ToolsDir, "empty", 0)}, {Dir(ToolsDir, "noexe", 0)},
                 {Dir(ToolsDir, "good", 0)} } }

-----------------------------------------------------------------------------
(* Exit codes *)

\* main() returns and the interpreter ends normally
ExitNormal == 0

\* sys.exit(1) under `except KeyboardInterrupt`
ExitInterrupt == 1

\* sys.exit(1) under `except Exception`
ExitFailure == 1

-----------------------------------------------------------------------------
Init ==
    /\ pc = "main"
    /\ exc = "none"
    /\ interrupted = FALSE
    /\ exit_code = ExitNormal
    /\ run = 1
    /\ cfg \in Configs
    /\ on_path \in BOOLEAN
    /\ config_dir \in InitialConfigDirs
    /\ backup_dir = {}
    /\ timestamp = None
    /\ mongodump_path = None
    /\ downloaded_file = None
    /\ picked = None
    /\ cmd = << >>
    /\ returncode = None
    /\ backup_file = None
    /\ notify_args = [file |-> None, success |-> FALSE]
    /\ notify_site = None
    /\ downloads = 0
    /\ resolved = FALSE
    /\ resolved_at = 0
    /\ log = << >>

\* the variables one invocation leaves alone unless it says otherwise
Tools == << on_path, config_dir, returncode, downloads, resolved, resolved_at,
            mongodump_path, downloaded_file, picked >>
Notify == << notify_args, notify_site >>

\* raise e: control passes to the handler at `handler`
Raise(e, handler) ==
    /\ exc' = e
    /\ interrupted' = (interrupted \/ e = KeyboardInterrupt)
    /\ pc' = handler

\* the step raises nothing
NoRaise == UNCHANGED << exc, interrupted >>

\* self.send_email_notification(file, success), called from `site`
CallNotify(file, success, site) ==
    /\ notify_args' = [file |-> file, success |-> success]
    /\ notify_site' = site
    /\ pc' = "send_email_notification"
    /\ log' = Append(log, Event("notify", file, success))

-----------------------------------------------------------------------------
(* main and the __main__ block *)

\* main(): --run builds BackupConfig and DatabaseBackup, then calls run_backup
Main ==
    /\ pc = "main"
    /\ \E o \in Outcomes :
         IF o = "ok"
         THEN /\ pc' = "run_backup"
              /\ log' = Append(log, Event("run_backup", None, TRUE))
              /\ NoRaise
         ELSE Raise(o, "toplevel_except") /\ UNCHANGED log
    /\ UNCHANGED << exit_code, run, cfg, backup_dir, timestamp, cmd, backup_file,
                    Tools, Notify >>

\* run_backup has returned: main returns and the process ends
MainReturn ==
    /\ pc = "main_return"
    /\ pc' = "exited"
    /\ UNCHANGED << exc, interrupted, exit_code, run, cfg, backup_dir, timestamp, cmd, backup_file, log,
                    Tools, Notify >>

\* the exit code the __main__ block's handlers give exception e
TopLevelExit(e) == IF e = KeyboardInterrupt THEN ExitInterrupt ELSE ExitFailure

\* except KeyboardInterrupt / except Exception around main()
TopLevelExcept ==
    /\ pc = "toplevel_except"
    /\ pc' = "exited"
    /\ exit_code' = TopLevelExit(exc)
    /\ exc' = "none"
    /\ UNCHANGED << interrupted, run, cfg, backup_dir, timestamp, cmd, backup_file, log,
                    Tools, Notify >>

\* the scheduler starts the next `--run` invocation
NextRun ==
    /\ pc = "exited"
    /\ run < MaxRuns
    /\ run' = run + 1
    /\ pc' = "main"
    /\ exc' = "none"
    /\ interrupted' = FALSE
    /\ exit_code' = ExitNormal
    /\ timestamp' = None
    /\ mongodump_path' = None
    /\ downloaded_file' = None
    /\ picked' = None
    /\ cmd' = << >>
    /\ returncode' = None
    /\ backup_file' = None
    /\ notify_args' = [file |-> None, success |-> FALSE]
    /\ notify_site' = None
    /\ log' = << >>
    /\ UNCHANGED << cfg, on_path, config_dir, backup_dir,
                    downloads, resolved, resolved_at >>

-----------------------------------------------------------------------------
(* DatabaseBackup.run_backup *)

\* as IsMysql, had mysql been the default engine
IsMysqlByDefault(db_type) == db_type # "mongodb"

\* `if db_type == "mysql":`
IsMysql(db_type) == db_type = "mysql"

\* `elif db_type == "mongodb":`
IsMongodb(db_type) == db_type = "mongodb"

\* db_type = ...; if "mysql" / elif "mongodb" / else raise ValueError
RunBackup ==
    /\ pc = "run_backup"
    /\ IF IsMysql(cfg.db_type) THEN pc' = "backup_mysql" /\ NoRaise
       ELSE IF IsMongodb(cfg.db_type) THEN pc' = "backup_mongodb" /\ NoRaise
       ELSE Raise(ValueError, "run_backup_except")
    /\ UNCHANGED << exit_code, run, cfg, backup_dir, timestamp, cmd, backup_file,
                    log, Tools, Notify >>

\* as Truthy, with the test inverted
TruthyInverted(file) == file = None

\* `if backup_file:` is true for a returned path
Truthy(file) == file # None

\* if backup_file: upload_to_ftp(...) else: send_email_notification(None, False)
Dispatch ==
    /\ pc = "dispatch"
    /\ IF Truthy(backup_file)
       THEN /\ pc' = "upload_to_ftp"
            /\ log' = Append(log, Event("upload", backup_file, TRUE))
            /\ UNCHANGED Notify
       ELSE CallNotify(None, FALSE, "try")
    /\ UNCHANGED << exc, interrupted, exit_code, run, cfg, backup_dir, timestamp, cmd,
                    backup_file, Tools >>

\* upload_to_ftp has returned: send_email_notification(backup_file, True)
AfterUpload ==
    /\ pc = "after_upload"
    /\ CallNotify(backup_file, TRUE, "try")
    /\ UNCHANGED << exc, interrupted, exit_code, run, cfg, backup_dir, timestamp, cmd,
                    backup_file, Tools >>

\* as RunBackupCatches, had the handler named RuntimeError only
RunBackupCatchesRuntimeOnly(e) == e = "RuntimeError"

\* run_backup: `except Exception as e` catches e
RunBackupCatches(e) == IsException(e)

\* except Exception as e: logger.error; send_email_notification(None, False)
RunBackupExcept ==
    /\ pc = "run_backup_except"
    /\ IF RunBackupCatches(exc)
       THEN exc' = "none" /\ CallNotify(None, FALSE, "except")
       ELSE pc' = "toplevel_except" /\ UNCHANGED << exc, log, Notify >>
    /\ UNCHANGED << interrupted, exit_code, run, cfg, backup_dir, timestamp, cmd, backup_file,
                    Tools >>

-----------------------------------------------------------------------------
(* DatabaseBackup.backup_mysql *)

\* cmd = ['mysqldump', f'-h{host}', f'-u{username}', f'-p{password}', name]
MysqlCmd(db) ==
    << "mysqldump", "-h" \o db.host, "-u" \o db.username, "-p" \o db.password, db.name >>

\* backup_dir.mkdir, timestamp, backup_file name, cmd, open(backup_file, 'w')
BackupMysql ==
    /\ pc = "backup_mysql"
    /\ \E o \in Outcomes :
         IF o = "ok"
         THEN /\ timestamp' = Strftime(run)
              /\ cmd' = MysqlCmd(cfg)
              /\ backup_dir' = With(backup_dir, MysqlBackupFile(cfg.local_path, cfg.name, timestamp'), FALSE)
              /\ pc' = "mysqldump"
              /\ NoRaise
         ELSE /\ Raise(o, "backup_mysql_except")
              /\ UNCHANGED << timestamp, cmd, backup_dir >>
    /\ UNCHANGED << exit_code, run, cfg, backup_file, log, Tools, Notify >>

\* with open(backup_file, 'w') as f: subprocess.run(cmd, stdout=f, check=True):
\* open creates the .sql file before mysqldump runs; a non-zero exit raises
\* CalledProcessError
Mysqldump ==
    /\ pc = "mysqldump"
    /\ \E o \in Outcomes \cup {CalledProcessError} :
         /\ log' = Append(log, Event("dump", cmd[1], o = "ok"))
         /\ returncode' = IF o = "ok" THEN "zero"
                           ELSE IF o = CalledProcessError THEN "nonzero" ELSE None
         /\ IF o = "ok"
            THEN /\ backup_dir' = With(backup_dir, MysqlBackupFile(cfg.local_path, cfg.name, timestamp), TRUE)
                 /\ pc' = "mysql_gzip"
                 /\ NoRaise
            ELSE /\ Raise(o, "backup_mysql_except")
                 \* mysqldump exited, so open had created the file; any other
                 \* failure comes from open or from after it
                 /\ \/ o # CalledProcessError /\ UNCHANGED backup_dir
                    \/ backup_dir' = With(backup_dir, MysqlBackupFile(cfg.local_path, cfg.name, timestamp), FALSE)
    /\ UNCHANGED << exit_code, run, cfg, timestamp, cmd, backup_file, Notify,
                    on_path, config_dir, downloads, resolved, resolved_at,
                    mongodump_path, downloaded_file, picked >>

\* with open(backup_file, 'rb') ..., gzip.open(f"{backup_file}.gz", 'wb'): copyfileobj
MysqlGzip ==
    /\ pc = "mysql_gzip"
    /\ LET file == MysqlBackupFile(cfg.local_path, cfg.name, timestamp) IN
       \E o \in Outcomes :
         /\ log' = Append(log, Event("gzip", MysqlArtifact(file), o = "ok"))
         /\ IF o = "ok"
            THEN /\ backup_dir' = With(backup_dir, MysqlArtifact(file), TRUE)
                 /\ pc' = "mysql_unlink"
                 /\ NoRaise
            ELSE /\ Raise(o, "backup_mysql_except")
                 \* the failure comes before or after gzip.open created the .gz file
                 /\ \/ UNCHANGED backup_dir
                    \/ backup_dir' = With(backup_dir, MysqlArtifact(file), FALSE)
    /\ UNCHANGED << exit_code, run, cfg, timestamp, cmd, backup_file, Tools, Notify >>

\* backup_file.unlink(); return f"{backup_file}.gz"
MysqlUnlink ==
    /\ pc = "mysql_unlink"
    /\ LET file == MysqlBackupFile(cfg.local_path, cfg.name, timestamp) IN
       \E o \in Outcomes :
         /\ log' = Append(log, Event("unlink", file, o = "ok"))
         /\ IF o = "ok"
            THEN /\ backup_dir' = Deleted(backup_dir, file)
                 /\ backup_file' = MysqlArtifact(file)
                 /\ pc' = "dispatch"
                 /\ NoRaise
            ELSE /\ Raise(o, "backup_mysql_except")
                 /\ UNCHANGED << backup_dir, backup_file >>
    /\ UNCHANGED << exit_code, run, cfg, timestamp, cmd, Tools, Notify >>

\* as BackupMysqlCatches, had the second handler been absent
BackupMysqlCatchesDumpOnly(e) == e = CalledProcessError

\* backup_mysql: `except subprocess.CalledProcessError` and `except Exception`
BackupMysqlCatches(e) == e = CalledProcessError \/ IsException(e)

\* except subprocess.CalledProcessError / except Exception: log, return None
BackupMysqlExcept ==
    /\ pc = "backup_mysql_except"
    /\ IF BackupMysqlCatches(exc)
       THEN exc' = "none" /\ backup_file' = None /\ pc' = "dispatch"
       ELSE pc' = "run_backup_except" /\ UNCHANGED << exc, backup_file >>
    /\ UNCHANGED << interrupted, exit_code, run, cfg, backup_dir, timestamp, cmd, log, Tools, Notify >>

-----------------------------------------------------------------------------
(* DatabaseBackup.send_email_notification *)

\* os.path.getsize(backup_file) needs the file to exist
Getsize(file, dir) == file \in Names(dir)

\* compose the report; on success read the file size; connect, starttls, login, send
SendEmailNotification ==
    /\ pc = "send_email_notification"
    /\ \E o \in Outcomes :
         /\ notify_args.success /\ ~ Getsize(notify_args.file, backup_dir) => o # "ok"
         /\ IF o = "ok"
            THEN /\ log' = Append(log, Event("send_message", notify_args.file, notify_args.success))
                 /\ pc' = "main_return"
                 /\ NoRaise
            ELSE /\ Raise(o, "notify_except")
                 /\ UNCHANGED log
    /\ UNCHANGED << exit_code, run, cfg, backup_dir, timestamp, cmd, backup_file,
                    Tools, Notify >>

\* as NotifyCatches, had the handler named the mail errors only
NotifyCatchesSmtpOnly(e) == e = "SMTPException"

\* send_email_notification: `except Exception as e` catches e
NotifyCatches(e) == IsException(e)

\* except Exception as e: logger.error; the call returns
\* (anything else leaves through the caller: run_backup's try block or its handler)
NotifyExcept ==
    /\ pc = "notify_except"
    /\ IF NotifyCatches(exc)
       THEN exc' = "none" /\ pc' = "main_return"
       ELSE /\ pc' = IF notify_site = "try" THEN "run_backup_except" ELSE "toplevel_except"
            /\ UNCHANGED exc
    /\ UNCHANGED << interrupted, exit_code, run, cfg, backup_dir, timestamp, cmd, backup_file,
                    log, Tools, Notify >>

-----------------------------------------------------------------------------
(* MongoToolsManager *)

DOWNLOAD_URLS(system) ==
    IF system = "windows"
    THEN "https://fastdl.mongodb.org/tools/db/mongodb-database-tools-windows-x86_64-100.10.0.zip"
    ELSE "https://fastdl.mongodb.org/tools/db/mongodb-database-tools-ubuntu-x86_64-100.10.0.tgz"

\* s.split('/')[-1]
LastSegment(s) ==
    LET slashes == { i \in 1..Len(s) : SubSeq(s, i, i) = "/" }
        last == CHOOSE i \in slashes : \A j \in slashes : j <= i
    IN  IF slashes = {} THEN s ELSE SubSeq(s, last + 1, Len(s))

\* local_filename = self.config_dir / url.split('/')[-1]
LocalFilename(system) == LastSegment(DOWNLOAD_URLS(system))

\* the top-level directory a distributed archive unpacks to: the archive's
\* name without its extension; an archive of another layout unpacks elsewhere
TopLevelDir(system, kind) ==
    IF kind = "nodir" THEN "database-tools"
    ELSE LET f == LocalFilename(system) IN SubSeq(f, 1, Len(f) - Len(".zip"))

\* the glob pattern of extract_tools, without its trailing *
GlobPrefix(system) ==
    IF system = "windows" THEN "mongodb-database-tools-windows-"
                          ELSE "mongodb-database-tools-"

\* self.config_dir.glob(prefix + '*'): every entry of config_dir with that prefix
Glob(dir, prefix) == { e \in dir : HasPrefix(e.name, prefix) }

\* 'mongodump.exe' if self.system == 'windows' else 'mongodump'
MongodumpCommand(system) == IF system = "windows" THEN "mongodump.exe" ELSE "mongodump"

\* (self.tools_dir / 'bin' / mongodump_command).exists()
CachedExists(dir) ==
    /\ Exists(dir, ToolsDir)
    /\ Lookup(dir, ToolsDir).kind = "dir"
    /\ Lookup(dir, ToolsDir).content = "good"

\* as GetMongodumpPath, had the tools directory been looked at first
GetMongodumpPathCacheFirst(which, dir, system) ==
    IF CachedExists(dir)
    THEN ToolsDir \o "/bin/" \o MongodumpCommand(system)
    ELSE IF which THEN MongodumpCommand(system) ELSE None

\* get_mongodump_path: the search path first, then the tools directory, else None
GetMongodumpPath(which, dir, system) ==
    IF which THEN MongodumpCommand(system)
    ELSE IF CachedExists(dir)
         THEN ToolsDir \o "/bin/" \o MongodumpCommand(system)
         ELSE None

\* as NotFound, had the lookup's result been ignored
NotFoundAlways(path) == TRUE

\* `if not mongodump_path:`
NotFound(path) == path = None

\* ensure_tools_available returns mongodump_path to backup_mongodb
EnsureReturn(path) ==
    /\ mongodump_path' = path
    /\ resolved' = TRUE
    /\ resolved_at' = IF resolved THEN resolved_at ELSE downloads
    /\ pc' = "mongodump"

\* mongodump_path = self.get_mongodump_path(); if not mongodump_path: provision
EnsureToolsAvailable ==
    /\ pc = "ensure_tools_available"
    /\ LET path == GetMongodumpPath(on_path, config_dir, cfg.system) IN
       IF NotFound(path)
       THEN /\ pc' = "download_tools"
            /\ mongodump_path' = path
            /\ UNCHANGED << resolved, resolved_at >>
       ELSE EnsureReturn(path)
    /\ UNCHANGED << exc, interrupted, exit_code, run, cfg, backup_dir, timestamp, cmd, backup_file,
                    log, Notify, on_path, config_dir, returncode, downloads,
                    downloaded_file, picked >>

\* download_tools: requests.get(url, stream=True) and the copy to local_filename.
\* requests.get raises on a network error only: the body of an error response
\* is written to the file like any other.
DownloadTools ==
    /\ pc = "download_tools"
    /\ downloads' = downloads + 1
    /\ LET name == LocalFilename(cfg.system) IN
       \/ \* the download completes
          \E kind \in ArchiveKinds :
            /\ config_dir' = Remove(config_dir, name) \cup {File(name, kind, downloads')}
            /\ downloaded_file' = name
            /\ log' = Append(log, Event("download", DOWNLOAD_URLS(cfg.system), TRUE))
            /\ pc' = "extract_tools"
            /\ NoRaise
       \/ \* it fails or is interrupted, before the file is opened or after
          \E o \in Outcomes \ {"ok"} :
            /\ \/ UNCHANGED config_dir
               \/ config_dir' = Remove(config_dir, name) \cup {File(name, "corrupt", downloads')}
            /\ log' = Append(log, Event("download", DOWNLOAD_URLS(cfg.system), FALSE))
            /\ Raise(o, "download_tools_except")
            /\ UNCHANGED downloaded_file
    /\ UNCHANGED << exit_code, run, cfg, backup_dir, timestamp, cmd, backup_file,
                    Notify, on_path, returncode, resolved, resolved_at,
                    mongodump_path, picked >>

\* download_tools: except Exception: print, raise
DownloadToolsExcept ==
    /\ pc = "download_tools_except"
    /\ pc' = "ensure_except"
    /\ UNCHANGED << exc, interrupted, exit_code, run, cfg, backup_dir, timestamp, cmd, backup_file,
                    log, Tools, Notify >>

\* files of an extraction into a directory that may exist already
Merge(old, new) == IF "good" \in {old, new} THEN "good" ELSE new

\* extractall(self.config_dir) of the archive `file`
Extractall(dir, file, system) ==
    LET top == TopLevelDir(system, file.content)
        content == IF file.content = "nodir" THEN "noexe" ELSE file.content
    IN  Remove(dir, top) \cup
          { Dir(top, IF Exists(dir, top) /\ Lookup(dir, top).kind = "dir"
                     THEN Merge(Lookup(dir, top).content, content)
                     ELSE content,
                file.gen) }

\* extract_tools: ZipFile(filename).extractall / tarfile.open(filename).extractall
ExtractTools ==
    /\ pc = "extract_tools"
    /\ LET file == Lookup(config_dir, downloaded_file) IN
       \E o \in Outcomes :
         /\ file.content \in Unreadable => o # "ok"
         /\ log' = Append(log, Event("extract", file.content, o = "ok"))
         /\ IF o = "ok"
            THEN /\ config_dir' = Extractall(config_dir, file, cfg.system)
                 /\ pc' = "extract_move"
                 /\ NoRaise
            ELSE /\ Raise(o, "extract_tools_except")
                 /\ UNCHANGED config_dir
    /\ UNCHANGED << exit_code, run, cfg, backup_dir, timestamp, cmd, backup_file,
                    Notify, on_path, returncode, downloads, resolved, resolved_at,
                    mongodump_path, downloaded_file, picked >>

\* shutil.rmtree(path) removes a directory and fails on anything else
RmtreeOk(dir, name) == Lookup(dir, name).kind = "dir"

\* Path.rename(target) where target exists, on POSIX: a file replaces a file,
\* a directory replaces an empty directory, anything else fails
PosixRenameOk(src, dst) ==
    \/ src.kind = "file" /\ dst.kind = "file"
    \/ src.kind = "dir" /\ dst.kind = "dir" /\ dst.content = "empty"

\* whether the move of `src` to tools_dir succeeds: on windows an existing
\* tools_dir is removed with rmtree first, on linux rename meets it
MoveOk(dir, src, system) ==
    \/ ~ Exists(dir, ToolsDir)
    \/ IF system = "windows" THEN RmtreeOk(dir, ToolsDir)
                             ELSE PosixRenameOk(src, Lookup(dir, ToolsDir))

\* config_dir after extracted_dir.rename(self.tools_dir)
Moved(dir, src) ==
    Remove(Remove(dir, ToolsDir), src.name) \cup {[src EXCEPT !.name = ToolsDir]}

\* extract_tools: extracted_dir = next(glob(...)); [rmtree]; rename to tools_dir
ExtractMove ==
    /\ pc = "extract_move"
    /\ LET found == Glob(config_dir, GlobPrefix(cfg.system)) IN
       IF found = {}
       THEN \* next() of an empty iterator: StopIteration
            /\ Raise(Error, "extract_tools_except")
            /\ UNCHANGED << config_dir, picked >>
       ELSE \E src \in found, o \in Outcomes :
            /\ picked' = src.name
            /\ ~ MoveOk(config_dir, src, cfg.system) => o # "ok"
            /\ IF o = "ok"
               THEN /\ config_dir' = Moved(config_dir, src)
                    /\ pc' = "extract_tools_finally"
                    /\ NoRaise
               ELSE /\ Raise(IF o = Error /\ ~ MoveOk(config_dir, src, cfg.system)
                             THEN OSError ELSE o, "extract_tools_except")
                    /\ UNCHANGED config_dir
    /\ UNCHANGED << exit_code, run, cfg, backup_dir, timestamp, cmd, backup_file,
                    log, Notify, on_path, returncode, downloads, resolved,
                    resolved_at, mongodump_path, downloaded_file >>

\* extract_tools: except Exception: print, raise
ExtractToolsExcept ==
    /\ pc = "extract_tools_except"
    /\ pc' = "extract_tools_finally"
    /\ UNCHANGED << exc, interrupted, exit_code, run, cfg, backup_dir, timestamp, cmd, backup_file,
                    log, Tools, Notify >>

\* as Unlink, had the cleanup been left out
UnlinkSkipped(dir, name) == dir

\* filename.unlink(missing_ok=True)
Unlink(dir, name) == Remove(dir, name)

\* extract_tools: finally: filename.unlink(missing_ok=True)
ExtractToolsFinally ==
    /\ pc = "extract_tools_finally"
    /\ config_dir' = Unlink(config_dir, downloaded_file)
    /\ pc' = IF exc = "none" THEN "resolve_again" ELSE "ensure_except"
    /\ UNCHANGED << exc, interrupted, exit_code, run, cfg, backup_dir, timestamp, cmd, backup_file,
                    log, Notify, on_path, returncode, downloads, resolved,
                    resolved_at, mongodump_path, downloaded_file, picked >>

\* the second `if not mongodump_path:`, after provisioning
StillNotFound(path) == path = None

\* mongodump_path = self.get_mongodump_path(); if not mongodump_path: raise
ResolveAgain ==
    /\ pc = "resolve_again"
    /\ LET path == GetMongodumpPath(on_path, config_dir, cfg.system) IN
       IF StillNotFound(path)
       THEN /\ Raise(Error, "ensure_except")
            /\ mongodump_path' = path
            /\ UNCHANGED << resolved, resolved_at >>
       ELSE EnsureReturn(path) /\ NoRaise
    /\ UNCHANGED << exit_code, run, cfg, backup_dir, timestamp, cmd, backup_file,
                    log, Notify, on_path, config_dir, returncode, downloads,
                    downloaded_file, picked >>

\* ensure_tools_available: except Exception: print, raise
EnsureExcept ==
    /\ pc = "ensure_except"
    /\ pc' = "backup_mongodb_except"
    /\ UNCHANGED << exc, interrupted, exit_code, run, cfg, backup_dir, timestamp, cmd, backup_file,
                    log, Tools, Notify >>

-----------------------------------------------------------------------------
(* DatabaseBackup.backup_mongodb *)

\* backup_dir.mkdir, timestamp, backup_path, MongoToolsManager(config_dir)
BackupMongodb ==
    /\ pc = "backup_mongodb"
    /\ \E o \in Outcomes :
         IF o = "ok"
         THEN /\ timestamp' = Strftime(run)
              /\ pc' = "ensure_tools_available"
              /\ NoRaise
         ELSE /\ Raise(o, "backup_mongodb_except")
              /\ UNCHANGED timestamp
    /\ UNCHANGED << exit_code, run, cfg, backup_dir, cmd, backup_file, log, Tools, Notify >>

\* as UseUri, had configured host parameters taken precedence
UseUriUnlessHost(db) == db.connection_string # "" /\ db.host = ""

\* `if "connection_string" in db_config and db_config["connection_string"]:`
UseUri(db) == db.connection_string # ""

\* cmd = [mongodump_path, --uri=..., --out=...] or
\*       [mongodump_path, --host=, --port=, --db=, --username=, --password=, --out=]
MongoCmd(path, db, out) ==
    IF UseUri(db)
    THEN << path, "--uri=" \o db.connection_string, "--out=" \o out >>
    ELSE << path, "--host=" \o db.host, "--port=" \o db.port, "--db=" \o db.name,
            "--username=" \o db.username, "--password=" \o db.password,
            "--out=" \o out >>

\* as MongodumpFailed, had the exit status gone unchecked
MongodumpFailedUnchecked(rc) == FALSE

\* `if result.returncode != 0:`
MongodumpFailed(rc) == rc # "zero"

\* build cmd; subprocess.run(cmd, capture_output=True); returncode != 0 raises
\* (mongodump may have written part of the tree when it fails)
Mongodump ==
    /\ pc = "mongodump"
    /\ LET path == MongoBackupPath(cfg.local_path, cfg.name, timestamp) IN
       /\ cmd' = MongoCmd(mongodump_path, cfg, path)
       /\ \E o \in Outcomes \cup {"nonzero"} :
            /\ log' = Append(log, Event("dump", cmd'[1], o = "ok"))
            /\ returncode' = IF o = "ok" THEN "zero"
                              ELSE IF o = "nonzero" THEN "nonzero" ELSE None
            /\ IF o \in {Error, KeyboardInterrupt}
               THEN /\ Raise(o, "backup_mongodb_except")
                    /\ \/ UNCHANGED backup_dir
                       \/ backup_dir' = With(backup_dir, path, FALSE)
               ELSE IF MongodumpFailed(returncode')
               THEN /\ Raise(Error, "backup_mongodb_except")
                    /\ \/ UNCHANGED backup_dir
                       \/ backup_dir' = With(backup_dir, path, FALSE)
               ELSE \* the tree is whole when mongodump exited with zero
                    /\ backup_dir' = With(backup_dir, path, o = "ok")
                    /\ pc' = "mongo_tar"
                    /\ NoRaise
    /\ UNCHANGED << exit_code, run, cfg, timestamp, backup_file, Notify, on_path,
                    config_dir, downloads, resolved, resolved_at, mongodump_path,
                    downloaded_file, picked >>

\* with tarfile.open(archive_path, "w:gz") as tar: tar.add(backup_path, ...)
MongoTar ==
    /\ pc = "mongo_tar"
    /\ LET path == MongoBackupPath(cfg.local_path, cfg.name, timestamp) IN
       \E o \in Outcomes :
         /\ log' = Append(log, Event("tar", MongoArchivePath(path), o = "ok"))
         /\ IF o = "ok"
            THEN /\ backup_dir' = With(backup_dir, MongoArchivePath(path), TRUE)
                 /\ pc' = "mongo_rmtree"
                 /\ NoRaise
            ELSE /\ Raise(o, "backup_mongodb_except")
                 \* the failure comes before or after tarfile.open created the file
                 /\ \/ UNCHANGED backup_dir
                    \/ backup_dir' = With(backup_dir, MongoArchivePath(path), FALSE)
    /\ UNCHANGED << exit_code, run, cfg, timestamp, cmd, backup_file, Tools, Notify >>

\* shutil.rmtree(backup_path); return archive_path
MongoRmtree ==
    /\ pc = "mongo_rmtree"
    /\ LET path == MongoBackupPath(cfg.local_path, cfg.name, timestamp) IN
       \E o \in Outcomes :
         /\ log' = Append(log, Event("rmtree", path, o = "ok"))
         /\ IF o = "ok"
            THEN /\ backup_dir' = Deleted(backup_dir, path)
                 /\ backup_file' = MongoArchivePath(path)
                 /\ pc' = "dispatch"
                 /\ NoRaise
            ELSE /\ Raise(o, "backup_mongodb_except")
                 \* rmtree stops part of the way through the tree
                 /\ backup_dir' = With(backup_dir, path, FALSE)
                 /\ UNCHANGED backup_file
    /\ UNCHANGED << exit_code, run, cfg, timestamp, cmd, Tools, Notify >>

\* as BackupMongodbCatches, had the handler named the dump's own error only
BackupMongodbCatchesDumpOnly(e) == e = CalledProcessError

\* backup_mongodb: `except Exception as e` catches e
BackupMongodbCatches(e) == IsException(e)

\* except Exception as e: log, return None
BackupMongodbExcept ==
    /\ pc = "backup_mongodb_except"
    /\ IF BackupMongodbCatches(exc)
       THEN exc' = "none" /\ backup_file' = None /\ pc' = "dispatch"
       ELSE pc' = "run_backup_except" /\ UNCHANGED << exc, backup_file >>
    /\ UNCHANGED << interrupted, exit_code, run, cfg, backup_dir, timestamp, cmd, log, Tools, Notify >>

-----------------------------------------------------------------------------
(* DatabaseBackup.upload_to_ftp *)

\* os.path.basename
Basename(path) == LastSegment(path)

\* as FtpDisabled, had the switch been ignored
FtpDisabledNever(config) == FALSE

\* `if not ftp_config["enabled"]:`
FtpDisabled(config) == ~ config.ftp_enabled

\* ftp_config = ...; if not ftp_config["enabled"]: return
UploadToFtp ==
    /\ pc = "upload_to_ftp"
    /\ pc' = IF FtpDisabled(cfg) THEN "after_upload" ELSE "ftp_connect"
    /\ UNCHANGED << exc, interrupted, exit_code, run, cfg, backup_dir, timestamp, cmd, backup_file,
                    log, Tools, Notify >>

\* one remote operation inside `with ftplib.FTP() as ftp:`; a raise goes to `handler`
FtpStep(at, op, arg, next, handler) ==
    /\ pc = at
    /\ \E o \in Outcomes :
         /\ log' = Append(log, Event(op, arg, o = "ok"))
         /\ IF o = "ok" THEN pc' = next /\ NoRaise
                        ELSE Raise(o, handler)
    /\ UNCHANGED << exit_code, run, cfg, backup_dir, timestamp, cmd, backup_file,
                    Tools, Notify >>

\* ftp.connect(host, port)
FtpConnect == FtpStep("ftp_connect", "connect", "host", "ftp_login", "upload_except")

\* ftp.login(username, password)
FtpLogin == FtpStep("ftp_login", "login", "username", "ftp_mkd", "upload_except")

\* try: ftp.mkd(directory)
FtpMkd == FtpStep("ftp_mkd", "mkd", "directory", "ftp_cwd", "ftp_mkd_except")

\* as FtpMkdCatches, had ftp.mkd not been guarded
FtpMkdCatchesNever(e) == FALSE

\* a bare `except:` catches every exception, KeyboardInterrupt included
FtpMkdCatches(e) == e # "none"

\* except: pass
FtpMkdExcept ==
    /\ pc = "ftp_mkd_except"
    /\ IF FtpMkdCatches(exc)
       THEN exc' = "none" /\ pc' = "ftp_cwd"
       ELSE pc' = "upload_except" /\ UNCHANGED exc
    /\ UNCHANGED << interrupted, exit_code, run, cfg, backup_dir, timestamp, cmd, backup_file,
                    log, Tools, Notify >>

\* ftp.cwd(directory)
FtpCwd == FtpStep("ftp_cwd", "cwd", "directory", "ftp_storbinary", "upload_except")

\* with open(backup_file, 'rb') as f: ftp.storbinary(f'STOR {basename}', f)
FtpStorbinary ==
    FtpStep("ftp_storbinary", "STOR", Basename(backup_file), "after_upload", "upload_except")

\* as UploadCatches, had the handler named the FTP reply errors only
UploadCatchesFtpOnly(e) == e = "ftplib.Error"

\* upload_to_ftp: `except Exception as e` catches e
UploadCatches(e) == IsException(e)

\* except Exception as e: logger.error; the call returns
UploadExcept ==
    /\ pc = "upload_except"
    /\ IF UploadCatches(exc)
       THEN exc' = "none" /\ pc' = "after_upload"
       ELSE pc' = "run_backup_except" /\ UNCHANGED exc
    /\ UNCHANGED << interrupted, exit_code, run, cfg, backup_dir, timestamp, cmd, backup_file,
                    log, Tools, Notify >>

-----------------------------------------------------------------------------
Next ==
    \/ Main \/ MainReturn \/ TopLevelExcept \/ NextRun
    \/ RunBackup \/ Dispatch \/ AfterUpload \/ RunBackupExcept
    \/ BackupMysql \/ Mysqldump \/ MysqlGzip \/ MysqlUnlink \/ BackupMysqlExcept
    \/ BackupMongodb \/ EnsureToolsAvailable \/ DownloadTools \/ DownloadToolsExcept
    \/ ExtractTools \/ ExtractMove \/ ExtractToolsExcept \/ ExtractToolsFinally
    \/ ResolveAgain \/ EnsureExcept
    \/ Mongodump \/ MongoTar \/ MongoRmtree \/ BackupMongodbExcept
    \/ UploadToFtp \/ FtpConnect \/ FtpLogin \/ FtpMkd \/ FtpMkdExcept \/ FtpCwd
    \/ FtpStorbinary \/ UploadExcept
    \/ SendEmailNotification \/ NotifyExcept

Spec == Init /\ [][Next]_vars

-----------------------------------------------------------------------------
(* Properties *)

\* positions in the log of the events of one kind
Ops(op) == { i \in DOMAIN log : log[i].op = op }

Count(op) == Cardinality(Ops(op))

FtpOps == {"connect", "login", "mkd", "cwd", "STOR"}

UploadPcs == {"upload_to_ftp", "ftp_connect", "ftp_login", "ftp_mkd", "ftp_mkd_except",
              "ftp_cwd", "ftp_storbinary", "upload_except"}

\* run_backup was entered and no interrupt was raised in this invocation
Uninterrupted == Count("run_backup") = 1 /\ ~ interrupted

\* run_backup is over (returned, or left by an exception)
RunOver == pc \in {"main_return", "toplevel_except", "exited"}

\* an exception is on its way out of run_backup
Escaping == pc \in {"run_backup_except", "toplevel_except"}

\* C1: in every run of run_backup that no interrupt cuts short,
\* send_email_notification is invoked exactly once, whatever the engine and
\* whatever fails; it is never invoked twice.
C1_NotifyExactlyOnce ==
    /\ Count("notify") <= 1
    /\ Uninterrupted /\ RunOver => Count("notify") = 1

\* C1 witness: the notifier itself fails, and the run ends with one call made
C1_Witness ==
    /\ pc = "main_return"
    /\ ~ interrupted
    /\ Count("notify") = 1
    /\ Count("send_message") = 0

\* C2: when the dump command exits with a non-zero status, the dump operation
\* returns None and the run makes exactly one notification call, with
\* success=False and no artifact.
C2_DumpFailureNotifiesFailure ==
    returncode = "nonzero" =>
        /\ backup_file = None
        /\ ~ interrupted => ~ Escaping
        /\ \A i \in Ops("notify") : log[i].arg = None /\ log[i].ok = FALSE
        /\ Count("notify") <= 1
        /\ Uninterrupted /\ RunOver => Count("notify") = 1

\* C2 witness: mongodump exited non-zero and the run is over
C2_Witness ==
    /\ cfg.db_type = "mongodb"
    /\ returncode = "nonzero"
    /\ pc = "main_return"
    /\ ~ interrupted

\* C3: once an artifact has been produced, whatever the upload does (disabled,
\* success, or a failure of any step) the notifier is invoked exactly once, with
\* success=True and the artifact, and no upload failure leaves run_backup.
C3_UploadNeverChangesOutcome ==
    backup_file # None =>
        /\ ~ interrupted => ~ Escaping
        /\ \A i \in Ops("notify") : log[i].arg = backup_file /\ log[i].ok = TRUE
        /\ Count("notify") <= 1
        /\ Uninterrupted /\ RunOver => Count("notify") = 1

\* C3 witness: the transfer failed and the run ended with its one notification
C3_Witness ==
    /\ pc = "main_return"
    /\ ~ interrupted
    /\ \E i \in Ops("STOR") : ~ log[i].ok
    /\ Count("notify") = 1

\* C4: when the dump operation returns None, upload_to_ftp is never invoked:
\* no upload call and no remote operation happens in that run.
C4_NoUploadWithoutArtifact ==
    backup_file = None =>
        /\ Count("upload") = 0
        /\ \A i \in DOMAIN log : log[i].op \notin FtpOps
        /\ pc \notin UploadPcs \cup {"after_upload"}

\* C4 witness: the dump ran, packaging failed, the failure notification is out
C4_Witness ==
    /\ pc = "main_return"
    /\ returncode = "zero"
    /\ backup_file = None
    /\ notify_site = "try"
    /\ Count("notify") = 1

\* C5: in a run that produced an artifact the upload is attempted, and is
\* over, before the notification is invoked: an upload call precedes the
\* notification call and no remote operation follows it.
C5_UploadBeforeNotify ==
    /\ backup_file # None /\ Count("notify") >= 1 => Count("upload") = 1
    /\ \A i \in Ops("notify") :
         log[i].ok =>
            /\ \E j \in Ops("upload") : j < i
            /\ \A k \in DOMAIN log : k > i => log[k].op \notin FtpOps \cup {"upload"}

\* C5 witness: the upload went through all its steps and the notification is called
C5_Witness ==
    /\ pc = "send_email_notification"
    /\ notify_args.success
    /\ Count("STOR") = 1

\* C6: with a database type that is neither "mysql" nor "mongodb" (unset
\* included) the run raises at once: no dump, no provisioning, no upload, and
\* one failure notification, made by the handler, before run_backup returns.
C6_UnsupportedEngine ==
    cfg.db_type \notin {"mysql", "mongodb"} =>
        /\ \A i \in DOMAIN log : log[i].op \in {"run_backup", "notify", "send_message"}
        /\ timestamp = None /\ returncode = None /\ downloads = 0
        /\ backup_dir = {} /\ config_dir \in InitialConfigDirs
        /\ backup_file = None
        /\ \A i \in Ops("notify") :
             log[i].arg = None /\ log[i].ok = FALSE /\ notify_site = "except"
        /\ Count("notify") <= 1
        /\ Uninterrupted /\ RunOver => Count("notify") = 1

\* C6 witness: the type is unset and the run is over
C6_Witness ==
    /\ cfg.db_type = None
    /\ pc = "main_return"
    /\ Count("notify") = 1

\* C7: whatever fails in a --run invocation (dump, engine, packaging, upload,
\* notification), no exception leaves run_backup and the process exits with 0.
C7_FailuresExitZero ==
    Uninterrupted =>
        /\ pc # "toplevel_except"
        /\ pc = "exited" => exit_code = ExitNormal

\* C7 witness: the dump failed, the notification failed, the process exited
C7_Witness ==
    /\ pc = "exited"
    /\ ~ interrupted
    /\ Count("dump") = 1
    /\ backup_file = None
    /\ Count("notify") = 1
    /\ Count("send_message") = 0

\* C8: a user interrupt raised anywhere in a --run invocation is absorbed by no
\* run-level handler: the process ends with a non-zero exit code.
C8_InterruptNeverAbsorbed ==
    interrupted /\ pc = "exited" => exit_code # ExitNormal

\* C8, the rest of the sentence: the exit code of an interrupt differs from
\* the exit code of an uncaught top-level failure.
C8_InterruptExitDistinguished ==
    interrupted /\ pc = "exited" => exit_code # ExitFailure

ProvisionPcs == {"download_tools", "download_tools_except", "extract_tools",
                 "extract_move", "extract_tools_except", "extract_tools_finally",
                 "resolve_again", "ensure_except"}

\* C9: once ensure_tools_available has returned a path, a later call, in this
\* invocation or a later one, makes no download request and returns a path.
C9_ResolutionMemoizes ==
    resolved =>
        /\ downloads = resolved_at
        /\ pc \notin ProvisionPcs
        /\ pc = "mongodump" => mongodump_path # None

\* C9 witness: the second invocation resolves the tool the first one provisioned
C9_Witness ==
    /\ run > 1
    /\ pc = "mongodump"
    /\ resolved
    /\ downloads >= 1
    /\ ~ on_path

\* C10: after a well-formed archive has been downloaded and extracted, and
\* the move to the cache location has succeeded, the cache location holds the
\* extracted directory with its executable, so that the tool resolves.
C10_WellFormedArchiveProvisions ==
    /\ pc \in {"extract_tools_finally", "resolve_again"}
    /\ exc = "none"
    /\ \E i \in Ops("extract") : log[i].arg = "good" /\ log[i].ok
    => CachedExists(config_dir)

ExtractPcs == {"extract_tools", "extract_move", "extract_tools_except",
               "extract_tools_finally"}

\* C11: once extract_tools has ended, with or without an error, the
\* downloaded archive no longer exists at its download location.
C11_ArchiveRemovedAfterExtraction ==
    pc \notin ExtractPcs /\ Ops("extract") # {} =>
        ~ Exists(config_dir, LocalFilename(cfg.system))

\* C11 witness: extractall failed on the archive, extract_tools has raised
C11_Witness ==
    /\ pc = "ensure_except"
    /\ \E i \in Ops("extract") : ~ log[i].ok
    /\ ~ Exists(config_dir, LocalFilename(cfg.system))

\* ensure_tools_available has left by an exception after a download was tried
ProvisionFailed ==
    /\ Count("download") >= 1
    /\ mongodump_path = None
    /\ pc \notin ProvisionPcs

\* C12: a provisioning failure in a mongodb run (download, extraction, or a
\* tool that still does not resolve) stays inside the dump operation:
\* backup_mongodb returns None, the dump command is never invoked, one failure
\* notification is made and the process ends normally.
C12_ProvisionFailureContained ==
    ProvisionFailed /\ ~ interrupted =>
        /\ Count("dump") = 0
        /\ backup_file = None
        /\ ~ Escaping
        /\ \A i \in Ops("notify") : log[i].arg = None /\ log[i].ok = FALSE
        /\ Count("notify") <= 1
        /\ RunOver => Count("notify") = 1
        /\ pc = "exited" => exit_code = ExitNormal

\* C12 witness: the archive was extracted and moved, the tool still does not
\* resolve, and the run has ended
C12_Witness ==
    /\ ProvisionFailed
    /\ ~ interrupted
    /\ picked # None
    /\ \E i \in Ops("extract") : log[i].ok
    /\ pc = "exited"

\* `part` occurs in `s`
Contains(s, part) ==
    \E i \in 1..(Len(s) - Len(part) + 1) : SubSeq(s, i, i + Len(part) - 1) = part

\* what this invocation has left in the backup directory: its names begin
\* with <local_path>/<db_type>_<name>_<timestamp of the invocation>
ProducedByRun ==
    LET stem == Join(cfg.local_path, cfg.db_type \o "_" \o cfg.name \o "_" \o timestamp)
    IN  { e \in backup_dir : HasPrefix(e.name, stem) }

\* C13: when the dump operation has returned an artifact path, the backup
\* directory holds exactly one entry of this run, the whole compressed
\* artifact at that path; the .sql file or the dump tree is gone.
C13_OneArtifactPerSuccessfulRun ==
    backup_file # None =>
        /\ ProducedByRun = { Entry(backup_file, TRUE) }
        /\ \A e \in backup_dir :
             e.name # cfg.local_path \o "/" \o cfg.db_type \o "_" \o cfg.name \o "_" \o timestamp
                        \o (IF cfg.db_type = "mysql" THEN ".sql" ELSE "")

\* C13 witness: the second invocation's mongodb run has ended with its artifact
\* beside the first one's
C13_Witness ==
    /\ cfg.db_type = "mongodb"
    /\ run > 1
    /\ pc = "main_return"
    /\ backup_file # None
    /\ Cardinality(backup_dir) > 1

\* C14: with remote upload disabled upload_to_ftp performs no connect, login,
\* directory or transfer operation and returns normally to run_backup.
C14_UploadDisabledIsNoOp ==
    ~ cfg.ftp_enabled =>
        /\ \A i \in DOMAIN log : log[i].op \notin FtpOps
        /\ pc \notin UploadPcs \ {"upload_to_ftp"}
        /\ Count("upload") = 1 /\ ~ interrupted => ~ Escaping

\* C14 witness: the disabled upload has returned to run_backup
C14_Witness ==
    /\ ~ cfg.ftp_enabled
    /\ pc = "after_upload"
    /\ Count("upload") = 1

\* the artifact's path as the naming convention gives it
ArtifactByConvention ==
    cfg.local_path \o "/" \o cfg.db_type \o "_" \o cfg.name \o "_" \o timestamp
        \o (IF cfg.db_type = "mysql" THEN ".sql.gz" ELSE ".tar.gz")

\* C15: the artifact returned is <local_path>/mysql_<name>_<timestamp>.sql.gz
\* for mysql, where the dump file was the same name without .gz, and
\* <local_path>/mongodb_<name>_<timestamp>.tar.gz for mongodb; the timestamp
\* has the form YYYYMMDD_HHMMSS.
C15_ArtifactNaming ==
    /\ timestamp # None =>
         Len(timestamp) = Len("YYYYMMDD_HHMMSS") /\ SubSeq(timestamp, 9, 9) = "_"
    /\ pc \in {"mysqldump", "mysql_gzip", "mysql_unlink"} =>
         \E e \in backup_dir :
            e.name = cfg.local_path \o "/mysql_" \o cfg.name \o "_" \o timestamp \o ".sql"
    /\ backup_file # None =>
         /\ backup_file = ArtifactByConvention
         /\ backup_file \in Names(backup_dir)

\* C15 witness: backup_mysql has returned its artifact
C15_Witness ==
    /\ cfg.db_type = "mysql"
    /\ pc = "dispatch"
    /\ backup_file = "/srv/backups/mysql_orders_20240301_100001.sql.gz"

\* the executable's name on the platform
Exe == IF cfg.system = "windows" THEN "mongodump.exe" ELSE "mongodump"

\* a cached installation with its executable is at the cache location
GoodCache ==
    \E e \in config_dir : e.name = "mongodb-tools" /\ e.kind = "dir" /\ e.content = "good"

\* C16: tool resolution looks at the search path first and at the cached copy
\* second: with the executable on the search path that one is returned, cached
\* copy or not, and a download starts only when both lookups fail.
C16_SearchPathThenCache ==
    /\ pc = "mongodump" /\ on_path => mongodump_path = Exe
    /\ pc = "mongodump" /\ ~ on_path => mongodump_path = "mongodb-tools/bin/" \o Exe
    /\ pc = "download_tools" => ~ on_path /\ ~ GoodCache
    /\ Count("download") >= 1 => ~ on_path

\* C16 witness: on the search path and cached, and the command name is returned
C16_Witness ==
    /\ on_path
    /\ GoodCache
    /\ pc = "mongodump"
    /\ mongodump_path = Exe

\* extractall of a well-formed archive went through in this invocation
GoodExtracted == \E i \in Ops("extract") : log[i].arg = "good" /\ log[i].ok

\* the glob has yielded the directory the archive unpacked to
PickedExtractedDir == picked = TopLevelDir(cfg.system, "good")

\* C17: on windows and on linux, when the extracted directory of a well-formed
\* archive is moved to a cache location where something already is, the move
\* does not fail on what is there, and afterwards the cache location holds the
\* new installation and nothing of the prior one.
C17_FreshInstallReplacesPrior ==
    GoodExtracted /\ PickedExtractedDir =>
        /\ pc = "extract_tools_except" => exc # OSError
        /\ pc = "extract_tools_finally" /\ exc = "none" =>
             Lookup(config_dir, ToolsDir) = Dir(ToolsDir, "good", downloads)

\* C18: extraction is attempted only on a download that completed: after a
\* network error, and after an HTTP error response, extract_tools is not
\* invoked.
C18_NoExtractionOfFailedDownload ==
    /\ (\E i \in Ops("download") : ~ log[i].ok) => Count("extract") = 0
    /\ \A i \in Ops("extract") : log[i].arg # "error_body"

\* positions of the arguments of cmd that start with `prefix`
Args(prefix) == { i \in DOMAIN cmd : HasPrefix(cmd[i], prefix) }

IndividualArgs == {"--host=", "--port=", "--db=", "--username=", "--password="}

\* C19: a mongodb dump command carries the --uri argument and none of
\* --host/--port/--db/--username/--password when a connection string is
\* configured, and those five and no --uri otherwise; it always carries --out.
\* A mysql dump command never carries the connection string.
C19_OneConnectionForm ==
    cmd # << >> =>
        IF cfg.db_type = "mongodb"
        THEN /\ Cardinality(Args("--out=")) = 1
             /\ IF cfg.connection_string # ""
                THEN /\ Cardinality(Args("--uri=")) = 1
                     /\ \A i \in Args("--uri=") : cmd[i] = "--uri=" \o cfg.connection_string
                     /\ \A p \in IndividualArgs : Args(p) = {}
                ELSE /\ Args("--uri=") = {}
                     /\ \A p \in IndividualArgs : Cardinality(Args(p)) = 1
        ELSE /\ Args("--uri=") = {}
             /\ cfg.connection_string # "" =>
                  \A i \in DOMAIN cmd : ~ Contains(cmd[i], cfg.connection_string)

\* C19 witness: mongodump ran with a connection string configured beside the
\* host parameters
C19_Witness ==
    /\ cfg.db_type = "mongodb"
    /\ cfg.connection_string # ""
    /\ cfg.host # ""
    /\ pc = "mongo_tar"
    /\ Len(cmd) > 1

\* the remote operations of this invocation, in the order they were made
FtpLog == SelectSeq(log, LAMBDA e : e.op \in FtpOps)

FtpOrder == << "connect", "login", "mkd", "cwd", "STOR" >>

\* where the process is when the operation after `op` is due
PcAfter(op) ==
    CASE op = "connect" -> "ftp_login"
      [] op = "login" -> "ftp_mkd"
      [] op = "mkd" -> "ftp_cwd"
      [] op = "cwd" -> "ftp_storbinary"

\* C20: the remote operations are made in the order connect, login, mkd, cwd,
\* STOR; a failed mkd is ignored and cwd comes next; a failed connect, login,
\* cwd or STOR is the last operation of the upload; the name stored is the
\* artifact's base filename.
C20_FtpSequence ==
    LET ftp == FtpLog
        n == Len(ftp)
    IN
    /\ n <= Len(FtpOrder)
    /\ \A i \in 1..n : ftp[i].op = FtpOrder[i]
    /\ \A i \in 1..n : ~ ftp[i].ok /\ ftp[i].op # "mkd" => i = n
    /\ n >= 1 /\ ftp[n].op # "STOR" /\ (ftp[n].ok \/ ftp[n].op = "mkd") =>
         \/ pc = PcAfter(ftp[n].op)
         \/ ftp[n].op = "mkd" /\ ~ ftp[n].ok /\ pc = "ftp_mkd_except"
    /\ cfg.ftp_enabled /\ pc = "after_upload" => n >= 1
    /\ \A i \in 1..n : ftp[i].op = "STOR" =>
         /\ cfg.local_path \o "/" \o ftp[i].arg = backup_file
         /\ ~ Contains(ftp[i].arg, "/")

\* C20 witness: mkd failed, and the artifact was stored all the same
C20_Witness ==
    /\ pc = "after_upload"
    /\ ~ interrupted
    /\ \E i \in Ops("mkd") : ~ log[i].ok
    /\ \E i \in Ops("STOR") : log[i].ok

PackagingOps == {"gzip", "unlink", "tar", "rmtree"}

\* a packaging step of this invocation has failed
PackagingFailed == \E i \in DOMAIN log : log[i].op \in PackagingOps /\ ~ log[i].ok

\* C21: when gzip or the unlink of the .sql file (mysql), or tar or the rmtree
\* of the dump tree (mongodb), fails after a successful dump, the dump operation
\* returns None to run_backup, no upload is attempted, and the run makes exactly
\* one notification call, with success=False and no artifact.
C21_PackagingFailureFailsRun ==
    PackagingFailed /\ ~ interrupted =>
        /\ \A i \in Ops("dump") : log[i].ok
        /\ backup_file = None
        /\ ~ Escaping
        /\ Count("upload") = 0 /\ FtpLog = << >>
        /\ \A i \in Ops("notify") : log[i].arg = None /\ log[i].ok = FALSE
        /\ Count("notify") <= 1
        /\ RunOver => Count("notify") = 1

\* C21 witness: the unlink of the .sql file failed after gzip had written
\* the artifact, and the run is over
C21_Witness ==
    /\ cfg.db_type = "mysql"
    /\ \E i \in Ops("unlink") : ~ log[i].ok
    /\ pc = "main_return"
    /\ ~ interrupted
    /\ Count("notify") = 1

\* the dump or a packaging step of this invocation has failed
DumpOrPackagingFailed ==
    \/ \E i \in Ops("dump") : ~ log[i].ok
    \/ PackagingFailed

\* C22: a run that ended in failure, after a failed dump or a failed packaging
\* step, has left no entry of its own in the backup directory: no .sql file,
\* no dump tree, no partial or complete compressed artifact.
C22_FailedRunLeavesNothing ==
    RunOver /\ ~ interrupted /\ DumpOrPackagingFailed => ProducedByRun = {}

=============================================================================
